---- MODULE Spec2Model ----
(***************************************************************************)
(* Echo learning assistant: the study-module generator (src/ai.js), the    *)
(* quiz session of the popup (src/popup.js) and the background service's   *)
(* video library and review schedule (src/background.js), as state         *)
(* machines.                                                               *)
(*                                                                         *)
(* JavaScript values are tagged records: [type |-> "undefined"],           *)
(* [type |-> "null"], [type |-> "number", num |-> n],                      *)
(* [type |-> "string", chars |-> <<pieces>>] (a string is the sequence of  *)
(* its pieces, single characters where the code works per character; the   *)
(* empty string is <<>>), [type |-> "array", items |-> <<...>>] and        *)
(* [type |-> "object", ...properties].                                     *)
(***************************************************************************)
EXTENDS Integers, Sequences, FiniteSets, TLC

VARIABLES
    \* ---- src/ai.js: one call of generateStudyModule
    transcriptData,         \* the argument of generateStudyModule
    genPc,                  \* "idle" | "awaitingAI" | "done"
    genOutcome,             \* the promise generateStudyModule returned
    aiPrompts,              \* number of chrome.ai.createPrompt calls made
    aiReply,                \* how the chrome.ai.createPrompt call settled
    \* ---- src/popup.js: EchoPopup's quiz fields and the DOM it drives
    currentQuiz,
    currentQuestionIndex,
    selectedAnswer,
    quizScore,
    submitDisabled,         \* #submit-answer .disabled
    feedbackHidden,         \* #feedback-container has class hidden
    quizCompleteHidden,     \* #quiz-complete has class hidden
    \* ---- history of the calls made on the popup (not program state)
    lastOp,                 \* the last method called and the state it was called in
    chosen,                 \* per question, the last option the walker selected
    advances,               \* number of nextQuestion calls of the walk
    \* ---- src/background.js: one call of calculateNextInterval
    intervalInput,          \* the argument of calculateNextInterval
    intervalOutput,         \* what the call returned, Undefined before it
    \* ---- src/ai.js: one call of parseAIResponse, one of
    \* generateFallbackStudyModule(transcriptData)
    rawResponse,            \* the argument of parseAIResponse (the raw AI response)
    parseResult,               \* what the call returned or threw, Undefined before it
    fallbackResult,         \* what generateFallbackStudyModule returned or threw
    \* ---- what the user is shown
    notifications,          \* chrome.notifications: the notifications created
    popupNotification,      \* the popup's showNotification(message, type), Null before
    \* ---- src/background.js: what the service persists
    library,                \* chrome.storage.local['echo_video_library']
    srsData,                \* chrome.storage.local['echo_srs_data']: videoId -> entry
    alarms,                 \* chrome.alarms: videoId of 'echo_review_<videoId>' -> when
    procs,                  \* the handler invocations in flight, per slot
    faults,                 \* how many chrome API calls may still fail
    \* ---- history of the schedule (not program state)
    scheduled               \* per videoId, scheduleVideoReview calls that saved
                            \* since the id last had no entry

genVars  == <<transcriptData, genPc, genOutcome, aiPrompts, aiReply>>
quizVars == <<currentQuiz, currentQuestionIndex, selectedAnswer, quizScore,
              submitDisabled, feedbackHidden, quizCompleteHidden>>
histVars == <<lastOp, chosen, advances>>
intervalVars == <<intervalInput, intervalOutput>>
aiVars   == <<rawResponse, parseResult, fallbackResult>>
callVars == <<intervalVars, aiVars>>
uiVars   == <<notifications, popupNotification>>
storeVars == <<library, srsData, alarms>>
bgVars   == <<callVars, uiVars, storeVars, procs, faults, scheduled>>
vars     == <<genVars, quizVars, histVars, bgVars>>

-----------------------------------------------------------------------------
(* Bounds of the model *)

\* the longest transcript generateStudyModule is called with
MaxSegments == 6
\* the longest quiz a session runs on
MaxQuestions == 3
\* submitAnswer is not called any more once the score has reached this cap
\* (repeated submits raise the score without limit)
MaxScore == 5

(* Program constants *)

NumOptions == 4
MaxCorrectAnswer == 3
KeyTermLimit == 8
MinWordLength == 4
SummaryPartLimit == 200
FirstPartSegments == 3
LastPartSegments == 2
MoreQuestionsThreshold == 5

-----------------------------------------------------------------------------
(* JavaScript values *)

Undefined == [type |-> "undefined"]
Null == [type |-> "null"]
Num(n) == [type |-> "number", num |-> n]
Str(s) == [type |-> "string", chars |-> s]
Arr(s) == [type |-> "array", items |-> s]

\* typeof v
TypeOf(v) ==
    IF v.type \in {"null", "array"} THEN "object" ELSE v.type

\* !!v
Truthy(v) ==
    CASE v.type \in {"undefined", "null"} -> FALSE
      [] v.type = "number" -> v.num # 0
      [] v.type = "string" -> v.chars # <<>>
      [] OTHER -> TRUE

\* v.name for a v that is neither null nor undefined
Prop(v, name) ==
    IF v.type = "object" /\ name \in DOMAIN v THEN v[name] ELSE Undefined

Returned(v) == [threw |-> FALSE, value |-> v]
Threw(msg) == [threw |-> TRUE, message |-> msg]

Min(a, b) == IF a <= b THEN a ELSE b
Max(a, b) == IF a >= b THEN a ELSE b

\* s.slice(0, n) / s.substring(0, n) on a sequence
Take(s, n) == SubSeq(s, 1, Min(n, Len(s)))
\* s.slice(-n)
TakeLast(s, n) == SubSeq(s, Max(1, Len(s) - n + 1), Len(s))

RECURSIVE Join(_, _)
\* parts.join(sep), parts a sequence of sequences
Join(parts, sep) ==
    IF parts = <<>> THEN <<>>
    ELSE IF Len(parts) = 1 THEN parts[1]
    ELSE parts[1] \o sep \o Join(Tail(parts), sep)

RECURSIVE Concat(_)
Concat(parts) ==
    IF parts = <<>> THEN <<>> ELSE parts[1] \o Concat(Tail(parts))

-----------------------------------------------------------------------------
(* Transcripts.  A segment is [text, startTime]; its text is the sequence  *)
(* of its whitespace-delimited words, a word the sequence of its           *)
(* characters (content.js keeps only segments with a trimmed, non-empty    *)
(* text).                                                                  *)

UpperCase == <<"A", "B", "C", "D", "E", "F", "G", "H", "I", "J", "K", "L", "M",
               "N", "O", "P", "Q", "R", "S", "T", "U", "V", "W", "X", "Y", "Z">>
LowerCase == <<"a", "b", "c", "d", "e", "f", "g", "h", "i", "j", "k", "l", "m",
               "n", "o", "p", "q", "r", "s", "t", "u", "v", "w", "x", "y", "z">>

Range(s) == {s[i] : i \in DOMAIN s}
UpperCaseLetters == Range(UpperCase)
Letters == Range(UpperCase) \cup Range(LowerCase)

\* c.toLowerCase() of one character
ToLowerChar(c) ==
    IF c \in UpperCaseLetters
    THEN LowerCase[CHOOSE i \in DOMAIN UpperCase : UpperCase[i] = c]
    ELSE c

\* word.toLowerCase()
ToLowerCase(word) == [i \in DOMAIN word |-> ToLowerChar(word[i])]

\* /^[a-zA-Z]+$/.test(word)
IsAlphabetic(word) ==
    /\ word # <<>>
    /\ \A i \in DOMAIN word : word[i] \in Letters

\* the characters of segment.text: its words joined by one blank
TextChars(segment) == Join(segment.text, <<" ">>)

commonWords == {
    <<"t","h","i","s">>, <<"t","h","a","t">>, <<"w","i","t","h">>, <<"h","a","v","e">>,
    <<"w","i","l","l">>, <<"f","r","o","m">>, <<"t","h","e","y">>, <<"k","n","o","w">>,
    <<"w","a","n","t">>, <<"b","e","e","n">>, <<"g","o","o","d">>, <<"m","u","c","h">>,
    <<"s","o","m","e">>, <<"t","i","m","e">>, <<"v","e","r","y">>, <<"w","h","e","n">>,
    <<"c","o","m","e">>, <<"h","e","r","e">>, <<"j","u","s","t">>, <<"l","i","k","e">>,
    <<"l","o","n","g">>, <<"m","a","k","e">>, <<"m","a","n","y">>, <<"o","v","e","r">>,
    <<"s","u","c","h">>, <<"t","a","k","e">>, <<"t","h","a","n">>, <<"t","h","e","m">>,
    <<"w","e","l","l">>, <<"w","e","r","e">> }

isCommonWord(word) == ToLowerCase(word) \in commonWords

\* the words kept by the two filters of extractKeyTermsFromTranscript
KeptWord(word) ==
    /\ Len(word) > MinWordLength
    /\ IsAlphabetic(word)
    /\ ~isCommonWord(word)

RECURSIVE Distinct(_)
\* the keys of termFrequency in insertion order
Distinct(words) ==
    IF words = <<>> THEN <<>>
    ELSE LET rest == Distinct(SubSeq(words, 1, Len(words) - 1))
             w == words[Len(words)]
         IN IF w \in Range(rest) THEN rest ELSE Append(rest, w)

\* termFrequency[word]
Frequency(words, word) == Cardinality({i \in DOMAIN words : words[i] = word})

\* the names a plain object inherits from Object.prototype that pass the
\* filters (lowercase, alphabetic, longer than 4): termFrequency[word] is
\* then the function Object, not undefined
PrototypeKeys == {<<"c","o","n","s","t","r","u","c","t","o","r">>}

\* the comparator ([,a], [,b]) => b - a on the entries of a and b.  The value
\* of a name in PrototypeKeys is the string (Object || 0) + 1 made, b - a is
\* NaN and sort takes NaN as +0
compareCounts(words, a, b) ==
    IF a \in PrototypeKeys \/ b \in PrototypeKeys THEN 0
    ELSE Frequency(words, b) - Frequency(words, a)

RECURSIVE InsertByCount(_, _, _)
\* one step of the stable sort by descending count: e goes after every entry
\* the comparator does not put behind it
InsertByCount(sorted, e, words) ==
    IF sorted = <<>> THEN <<e>>
    ELSE IF compareCounts(words, sorted[1], e) <= 0
         THEN <<sorted[1]>> \o InsertByCount(Tail(sorted), e, words)
         ELSE <<e>> \o sorted

RECURSIVE SortByCount(_, _)
\* Object.entries(termFrequency).sort(([,a], [,b]) => b - a), a stable sort
SortByCount(entries, words) ==
    IF entries = <<>> THEN <<>>
    ELSE InsertByCount(SortByCount(SubSeq(entries, 1, Len(entries) - 1), words),
                       entries[Len(entries)], words)

\* the comparator orders the entries consistently; when it does not, the
\* order Array.prototype.sort leaves is implementation-defined
ConsistentComparator(entries, words) ==
    \A a, b, c \in Range(entries) :
        (compareCounts(words, a, b) = 0 /\ compareCounts(words, b, c) = 0)
        => compareCounts(words, a, c) = 0

\* every order of the entries
Orderings(s) ==
    {[i \in DOMAIN s |-> s[f[i]]] :
        f \in {g \in [DOMAIN s -> DOMAIN s] :
                  \A i, j \in DOMAIN s : g[i] = g[j] => i = j}}

\* the words extractKeyTermsFromTranscript counts: allText.split(/\s+/) and
\* the two filters
CountedWords(transcript) ==
    LET allText == [i \in DOMAIN transcript |->
                       [j \in DOMAIN transcript[i].text |->
                           ToLowerCase(transcript[i].text[j])]]
    IN SelectSeq(Concat(allText), KeptWord)

\* the call with the sort as a stable insertion sort
extractKeyTermsFromTranscript(transcript) ==
    LET words == CountedWords(transcript)
    IN Take(SortByCount(Distinct(words), words), KeyTermLimit)

\* every list the call can return
KeyTermOutcomes(transcript) ==
    LET words == CountedWords(transcript)
        entries == Distinct(words)
    IN IF ConsistentComparator(entries, words)
       THEN {extractKeyTermsFromTranscript(transcript)}
       ELSE {Take(sorted, KeyTermLimit) : sorted \in Orderings(entries)}

generateBasicSummary(transcript) ==
    IF Len(transcript) = 0 THEN Str(<<"No content available.">>)
    ELSE LET firstPart == Join([i \in DOMAIN Take(transcript, FirstPartSegments) |->
                                   TextChars(transcript[i])], <<" ">>)
             last == TakeLast(transcript, LastPartSegments)
             lastPart == Join([i \in DOMAIN last |-> TextChars(last[i])], <<" ">>)
         IN Str(<<"This video covers ", ToString(Len(transcript)),
                  " segments of content. The beginning discusses ">>
                \o Take(firstPart, SummaryPartLimit)
                \o <<"... The conclusion covers ">>
                \o Take(lastPart, SummaryPartLimit)
                \o <<"...">>)

Question(q, opts, answer, expl) ==
    [type |-> "object", question |-> q, options |-> opts,
     correctAnswer |-> answer, explanation |-> expl]

BeginningQuestion ==
    Question(Str(<<"What is discussed at the beginning of this video?">>),
             Arr(<<Str(<<"Introduction to the main topic">>),
                   Str(<<"Conclusion and summary">>),
                   Str(<<"Technical details only">>),
                   Str(<<"Background music">>)>>),
             Num(0),
             Str(<<"The beginning of the video typically introduces the main topic that will be covered.">>))

SegmentCountQuestion(n) ==
    Question(Str(<<"How many content segments does this video have?">>),
             Arr(<<Str(<<ToString(n), " segments">>),
                   Str(<<"Less than 5 segments">>),
                   Str(<<"More than 50 segments">>),
                   Str(<<"Unknown">>)>>),
             Num(0),
             Str(<<"This video contains ", ToString(n), " distinct content segments.">>))

ContentTypeQuestion ==
    Question(Str(<<"What type of content is this video?">>),
             Arr(<<Str(<<"Educational content">>),
                   Str(<<"Entertainment only">>),
                   Str(<<"Advertisement">>),
                   Str(<<"Music video">>)>>),
             Num(0),
             Str(<<"This appears to be educational content based on the structured transcript segments.">>))

\* Mutant of generateBasicQuiz: the third question is added from 5 segments on
generateBasicQuizFromFive(transcript) ==
    LET first == IF Len(transcript) > 0
                 THEN <<BeginningQuestion, SegmentCountQuestion(Len(transcript))>>
                 ELSE <<>>
        more == IF Len(transcript) >= MoreQuestionsThreshold
                THEN <<ContentTypeQuestion>>
                ELSE <<>>
    IN [type |-> "object", questions |-> Arr(first \o more)]

generateBasicQuiz(transcript) ==
    LET first == IF Len(transcript) > 0
                 THEN <<BeginningQuestion, SegmentCountQuestion(Len(transcript))>>
                 ELSE <<>>
        more == IF Len(transcript) > MoreQuestionsThreshold
                THEN <<ContentTypeQuestion>>
                ELSE <<>>
    IN [type |-> "object", questions |-> Arr(first \o more)]

StudyModule(summary, keyTerms, quiz) ==
    [type |-> "object", summary |-> summary, keyTerms |-> keyTerms, quiz |-> quiz]

\* transcriptData.map of a null argument throws a TypeError
generateFallbackStudyModule(data) ==
    IF data.type # "array"
    THEN Threw("TypeError")
    ELSE LET keyTerms == extractKeyTermsFromTranscript(data.items)
         IN Returned(StudyModule(
                generateBasicSummary(data.items),
                Arr([i \in DOMAIN keyTerms |-> Str(keyTerms[i])]),
                generateBasicQuiz(data.items)))

-----------------------------------------------------------------------------
(* validateStudyModule *)

IsArray(v) == v.type = "array"

\* the body of the forEach callback, for the question at 1-based position index
ValidateQuestion(question, index) ==
    IF question.type \in {"undefined", "null"}
    THEN Threw("TypeError")
    ELSE IF ~Truthy(Prop(question, "question")) \/ TypeOf(Prop(question, "question")) # "string"
    THEN Threw("Question " \o ToString(index) \o " must have a question string")
    ELSE IF ~IsArray(Prop(question, "options")) \/ Len(Prop(question, "options").items) # NumOptions
    THEN Threw("Question " \o ToString(index) \o " must have exactly 4 options")
    ELSE IF \/ TypeOf(Prop(question, "correctAnswer")) # "number"
            \/ Prop(question, "correctAnswer").num < 0
            \/ Prop(question, "correctAnswer").num > MaxCorrectAnswer
    THEN Threw("Question " \o ToString(index) \o " must have a valid correctAnswer (0-3)")
    ELSE IF ~Truthy(Prop(question, "explanation")) \/ TypeOf(Prop(question, "explanation")) # "string"
    THEN Threw("Question " \o ToString(index) \o " must have an explanation string")
    ELSE Returned(Undefined)

validateStudyModule(studyModule) ==
    IF ~Truthy(studyModule) \/ TypeOf(studyModule) # "object"
    THEN Threw("Study module must be an object")
    ELSE IF ~Truthy(Prop(studyModule, "summary")) \/ TypeOf(Prop(studyModule, "summary")) # "string"
    THEN Threw("Study module must have a summary string")
    ELSE IF ~IsArray(Prop(studyModule, "keyTerms"))
    THEN Threw("Study module must have keyTerms array")
    ELSE IF \/ ~Truthy(Prop(studyModule, "quiz"))
            \/ ~Truthy(Prop(Prop(studyModule, "quiz"), "questions"))
            \/ ~IsArray(Prop(Prop(studyModule, "quiz"), "questions"))
    THEN Threw("Study module must have quiz with questions array")
    ELSE LET questions == Prop(Prop(studyModule, "quiz"), "questions").items
             failing == {i \in DOMAIN questions : ValidateQuestion(questions[i], i).threw}
         IN IF failing = {}
            THEN Returned(Undefined)
            ELSE LET first == CHOOSE i \in failing : \A j \in failing : i <= j
                 IN ValidateQuestion(questions[first], first)

-----------------------------------------------------------------------------
(* parseAIResponse.  A response is a string whose pieces are fence markers, *)
(* white space, prose and JSON texts; JSON.parse is the table JSONValue on  *)
(* the JSON texts of the model.                                            *)

\* the three-backquote code fence, bare and tagged json
FenceJson == "<fence>json"
Fence == "<fence>"
WhiteSpace == {" ", "\n"}

ValidQuestion(answer) ==
    Question(Str(<<"Q">>),
             Arr(<<Str(<<"A">>), Str(<<"B">>), Str(<<"C">>), Str(<<"D">>)>>),
             Num(answer), Str(<<"E">>))

AIModule(questions) ==
    StudyModule(Str(<<"AI summary">>), Arr(<<Str(<<"term">>)>>),
                [type |-> "object", questions |-> questions])

OneQuestion(q) == AIModule(Arr(<<ValidQuestion(1), q>>))

JSONValue ==
    [text \in {"{valid}"} |-> AIModule(Arr(<<ValidQuestion(1), ValidQuestion(3)>>))]
    @@ [text \in {"{emptyQuestions}"} |-> AIModule(Arr(<<>>))]
    @@ [text \in {"{emptySummary}"} |->
           [AIModule(Arr(<<ValidQuestion(0)>>)) EXCEPT !.summary = Str(<<>>)]]
    @@ [text \in {"{numericSummary}"} |->
           [AIModule(Arr(<<ValidQuestion(0)>>)) EXCEPT !.summary = Num(7)]]
    @@ [text \in {"{noKeyTerms}"} |->
           [type |-> "object", summary |-> Str(<<"AI summary">>),
            quiz |-> [type |-> "object", questions |-> Arr(<<ValidQuestion(0)>>)]]]
    @@ [text \in {"{noQuiz}"} |->
           [type |-> "object", summary |-> Str(<<"AI summary">>), keyTerms |-> Arr(<<>>)]]
    @@ [text \in {"{questionsNotArray}"} |-> AIModule(Str(<<"five questions">>))]
    @@ [text \in {"{noQuestionText}"} |->
           OneQuestion([ValidQuestion(2) EXCEPT !.question = Str(<<>>)])]
    @@ [text \in {"{threeOptions}"} |->
           OneQuestion([ValidQuestion(2) EXCEPT
                           !.options = Arr(<<Str(<<"A">>), Str(<<"B">>), Str(<<"C">>)>>)])]
    @@ [text \in {"{answerFour}"} |-> OneQuestion(ValidQuestion(4))]
    @@ [text \in {"{answerNegative}"} |-> OneQuestion(ValidQuestion(-1))]
    @@ [text \in {"{answerString}"} |->
           OneQuestion([ValidQuestion(2) EXCEPT !.correctAnswer = Str(<<"2">>)])]
    @@ [text \in {"{emptyExplanation}"} |->
           OneQuestion([ValidQuestion(2) EXCEPT !.explanation = Str(<<>>)])]
    @@ [text \in {"{nullQuestion}"} |-> OneQuestion(Null)]
    @@ [text \in {"null"} |-> Null]
    @@ [text \in {"42"} |-> Num(42)]
    @@ [text \in {"[]"} |-> Arr(<<>>)]

JSONTexts == DOMAIN JSONValue

\* pieces that are not JSON
Prose == "Here is your study module"
BrokenObject == "{oops}"

HasOpenBrace(piece) == piece = BrokenObject \/ (piece \in JSONTexts /\ JSONValue[piece].type = "object")
HasCloseBrace(piece) == HasOpenBrace(piece)
IsFence(piece) == piece \in {Fence, FenceJson}

RECURSIVE TrimStart(_)
TrimStart(s) ==
    IF s # <<>> /\ s[1] \in WhiteSpace THEN TrimStart(Tail(s)) ELSE s

RECURSIVE TrimEnd(_)
TrimEnd(s) ==
    IF s # <<>> /\ s[Len(s)] \in WhiteSpace THEN TrimEnd(SubSeq(s, 1, Len(s) - 1)) ELSE s

\* s.trim()
Trim(s) == TrimEnd(TrimStart(s))

First(S) == CHOOSE i \in S : \A j \in S : i <= j
Last(S) == CHOOSE i \in S : \A j \in S : i >= j

\* response.match of a fenced block opened by a piece in Openers:
\* [found, whole (match[0]), group (match[1])]
MatchFenced(pieces, Openers) ==
    LET opens == {i \in DOMAIN pieces :
                     /\ pieces[i] \in Openers
                     /\ \E j \in DOMAIN pieces : j > i /\ IsFence(pieces[j])}
    IN IF opens = {}
       THEN [found |-> FALSE]
       ELSE LET i == First(opens)
                j == First({k \in DOMAIN pieces : k > i /\ IsFence(pieces[k])})
                \* a block opened by the tagged fence and matched as a bare one keeps the tag
                tag == IF pieces[i] = FenceJson /\ FenceJson \notin Openers
                       THEN <<"json">> ELSE <<>>
                inner == SubSeq(pieces, i + 1, j - 1)
            IN [found |-> TRUE,
                whole |-> SubSeq(pieces, i, j),
                group |-> IF tag = <<>> THEN Trim(inner) ELSE tag \o TrimEnd(inner)]

\* response.match(/\{[\s\S]*\}/): from the first { to the last }
MatchBraces(pieces) ==
    LET opens == {i \in DOMAIN pieces : HasOpenBrace(pieces[i])}
        closes == {i \in DOMAIN pieces : HasCloseBrace(pieces[i])}
    IN IF opens = {} \/ closes = {} \/ Last(closes) < First(opens)
       THEN [found |-> FALSE]
       ELSE [found |-> TRUE, whole |-> SubSeq(pieces, First(opens), Last(closes))]

\* JSON.parse(text)
JSONParse(pieces) ==
    IF Len(Trim(pieces)) = 1 /\ Trim(pieces)[1] \in JSONTexts
    THEN Returned(JSONValue[Trim(pieces)[1]])
    ELSE Threw("SyntaxError")

parseAIResponse(response) ==
    LET pieces == response.chars
        tagged == MatchFenced(pieces, {FenceJson})
        fenced == MatchFenced(pieces, {Fence, FenceJson})
        braces == MatchBraces(pieces)
        jsonString ==
            IF tagged.found
            THEN (IF tagged.group # <<>> THEN tagged.group ELSE tagged.whole)
            ELSE IF fenced.found
            THEN (IF fenced.group # <<>> THEN fenced.group ELSE fenced.whole)
            ELSE IF braces.found
            THEN braces.whole
            ELSE pieces
        parsed == JSONParse(Trim(jsonString))
    IN IF parsed.threw THEN Threw("Failed to parse AI response as JSON") ELSE parsed

-----------------------------------------------------------------------------
(* generateStudyModule: the inputs the model draws *)

SegmentTexts ==
    { << <<"N","e","u","r","a","l">>, <<"n","e","t","s">> >>,
      << <<"l","e","a","r","n">>, <<"d","a","t","a","2","x">>, <<"l","e","a","r","n">> >> }

\* every transcript of n segments
TranscriptsOf(n) ==
    {[i \in 1..n |-> [text |-> texts[i], startTime |-> 5 * (i - 1)]] :
        texts \in [1..n -> SegmentTexts]}

\* the arguments generateStudyModule is called with: null, [] and the
\* transcripts of up to MaxSegments segments
TranscriptInputs ==
    {Null} \cup {Arr(t) : t \in UNION {TranscriptsOf(n) : n \in 0..MaxSegments}}

Bodies == JSONTexts \cup {Prose, BrokenObject}

\* what chrome.ai.createPrompt resolves with: nothing, the empty string, or
\* a text that holds a body bare, in a json fence, in a bare fence or in prose
AIResponses ==
    {Null, Str(<<>>)}
    \cup {Str(<<b>>) : b \in Bodies}
    \cup {Str(<<FenceJson, "\n", b, "\n", Fence>>) : b \in Bodies}
    \cup {Str(<<Prose, "\n", Fence, "\n", b, "\n", Fence>>) : b \in Bodies}
    \cup {Str(<<Prose, " ", b, " ", Prose>>) : b \in Bodies}

AIReplies ==
    {[kind |-> "rejects"]} \cup {[kind |-> "resolves", response |-> r] : r \in AIResponses}

NoReply == [kind |-> "none"]
Pending == [status |-> "pending"]

-----------------------------------------------------------------------------
(* generateStudyModule *)

\* Mutant of CatchFallback: the catch block rethrows
CatchRethrows(data) ==
    [status |-> "rejected", error |-> "Error"]

\* the catch block: return generateFallbackStudyModule(transcriptData, difficulty)
CatchFallback(data) ==
    LET fallback == generateFallbackStudyModule(data)
    IN IF fallback.threw
       THEN [status |-> "rejected", error |-> fallback.message]
       ELSE [status |-> "resolved", value |-> fallback.value]

\* the input check at the top of the try block
InvalidTranscript(data) ==
    ~Truthy(data) \/ ~IsArray(data) \/ Len(data.items) = 0

\* the call, up to the await of chrome.ai.createPrompt
generateStudyModule ==
    /\ genPc = "idle"
    /\ IF InvalidTranscript(transcriptData)
       THEN /\ genOutcome' = CatchFallback(transcriptData)
            /\ genPc' = "done"
            /\ aiPrompts' = aiPrompts
       ELSE /\ genOutcome' = genOutcome
            /\ genPc' = "awaitingAI"
            /\ aiPrompts' = aiPrompts + 1
    /\ UNCHANGED <<transcriptData, aiReply, quizVars, histVars, bgVars>>

\* the rest of the try block once the AI call has settled with reply
AfterPrompt(data, reply) ==
    IF reply.kind = "rejects" \/ ~Truthy(reply.response)
    THEN CatchFallback(data)
    ELSE LET studyModule == parseAIResponse(reply.response)
         IN IF studyModule.threw
            THEN CatchFallback(data)
            ELSE IF validateStudyModule(studyModule.value).threw
            THEN CatchFallback(data)
            ELSE [status |-> "resolved", value |-> studyModule.value]

createPromptSettles ==
    /\ genPc = "awaitingAI"
    /\ \E reply \in AIReplies :
          /\ aiReply' = reply
          /\ genOutcome' = AfterPrompt(transcriptData, reply)
    /\ genPc' = "done"
    /\ UNCHANGED <<transcriptData, aiPrompts, quizVars, histVars, bgVars>>

-----------------------------------------------------------------------------
(* EchoPopup: the quiz session *)

\* this.currentQuiz.quiz.questions
Questions == currentQuiz.quiz.questions.items

\* this.currentQuiz.quiz.questions[this.currentQuestionIndex]
CurrentQuestion == Questions[currentQuestionIndex + 1]

\* the validated study modules of 1..MaxQuestions questions a session runs on
QuizModules ==
    {AIModule(Arr([i \in DOMAIN answers |-> ValidQuestion(answers[i])])) :
        answers \in UNION {[1..n -> 0..MaxCorrectAnswer] : n \in 1..MaxQuestions}}

\* the state of §4.2 the popup is in, read from its fields and its DOM
SessionState ==
    CASE currentQuiz = Null -> "NoQuiz"
      [] ~quizCompleteHidden -> "Complete"
      [] ~feedbackHidden -> "Feedback"
      [] selectedAnswer = Null -> "Presenting"
      [] OTHER -> "AnswerSelected"

\* displayQuestion(question): what it does to the fields and the DOM flags
displayQuestion ==
    /\ feedbackHidden' = TRUE
    /\ quizCompleteHidden' = TRUE
    /\ submitDisabled' = TRUE
    /\ selectedAnswer' = Null

displayQuiz(studyModule) ==
    /\ currentQuiz' = studyModule
    /\ currentQuestionIndex' = 0
    /\ quizScore' = 0
    /\ displayQuestion

selectOption(index) ==
    /\ selectedAnswer' = Num(index)
    /\ submitDisabled' = FALSE
    /\ UNCHANGED <<currentQuiz, currentQuestionIndex, quizScore,
                   feedbackHidden, quizCompleteHidden>>

\* showFeedback(isCorrect, explanation)
showFeedback ==
    feedbackHidden' = FALSE

\* Mutant of submitAnswer: the score counts every submitted answer
submitAnswerCountsAll ==
    IF selectedAnswer = Null
    THEN UNCHANGED quizVars
    ELSE /\ quizScore' = quizScore + 1
         /\ showFeedback
         /\ submitDisabled' = TRUE
         /\ UNCHANGED <<currentQuiz, currentQuestionIndex, selectedAnswer,
                        quizCompleteHidden>>

submitAnswer ==
    IF selectedAnswer = Null
    THEN UNCHANGED quizVars
    ELSE /\ quizScore' = IF selectedAnswer = CurrentQuestion.correctAnswer
                         THEN quizScore + 1
                         ELSE quizScore
         /\ showFeedback
         /\ submitDisabled' = TRUE
         /\ UNCHANGED <<currentQuiz, currentQuestionIndex, selectedAnswer,
                        quizCompleteHidden>>

finishQuiz ==
    /\ feedbackHidden' = TRUE
    /\ quizCompleteHidden' = FALSE
    /\ UNCHANGED <<currentQuiz, currentQuestionIndex, selectedAnswer, quizScore,
                   submitDisabled>>

\* Mutant of nextQuestion: the last index is taken to be the length
nextQuestionOffByOne ==
    IF currentQuestionIndex = Len(Questions)
    THEN finishQuiz
    ELSE /\ currentQuestionIndex' = currentQuestionIndex + 1
         /\ displayQuestion
         /\ UNCHANGED <<currentQuiz, quizScore>>

nextQuestion ==
    IF currentQuestionIndex = Len(Questions) - 1
    THEN finishQuiz
    ELSE /\ currentQuestionIndex' = currentQuestionIndex + 1
         /\ displayQuestion
         /\ UNCHANGED <<currentQuiz, quizScore>>

\* Mutant of retakeQuiz: the score of the previous attempt is kept
retakeQuizKeepsScore ==
    /\ currentQuestionIndex' = 0
    /\ quizScore' = quizScore
    /\ displayQuestion
    /\ UNCHANGED currentQuiz

retakeQuiz ==
    /\ currentQuestionIndex' = 0
    /\ quizScore' = 0
    /\ displayQuestion
    /\ UNCHANGED currentQuiz

-----------------------------------------------------------------------------
(* The calls made on the popup *)

NoOp == [name |-> "none", from |-> "NoQuiz", index |-> 0]

\* the record of a call: its name, the state and the question it was made at
Called(name) ==
    lastOp' = [name |-> name, from |-> SessionState, index |-> currentQuestionIndex]

StartSession ==
    /\ currentQuiz = Null
    /\ \E studyModule \in QuizModules :
          /\ displayQuiz(studyModule)
          /\ chosen' = [i \in 1..Len(studyModule.quiz.questions.items) |-> Null]
    /\ Called("displayQuiz")
    /\ UNCHANGED <<genVars, bgVars, advances>>

\* the calls in any order
CallSelectOption ==
    /\ currentQuiz # Null
    /\ \E index \in 0..(NumOptions - 1) : selectOption(index)
    /\ Called("selectOption")
    /\ UNCHANGED <<genVars, bgVars, chosen, advances>>

CallSubmitAnswer ==
    /\ currentQuiz # Null
    /\ quizScore < MaxScore
    /\ submitAnswer
    /\ Called("submitAnswer")
    /\ UNCHANGED <<genVars, bgVars, chosen, advances>>

CallNextQuestion ==
    /\ currentQuiz # Null
    /\ nextQuestion
    /\ Called("nextQuestion")
    /\ UNCHANGED <<genVars, bgVars, chosen, advances>>

CallRetakeQuiz ==
    /\ currentQuiz # Null
    /\ retakeQuiz
    /\ Called("retakeQuiz")
    /\ UNCHANGED <<genVars, bgVars, chosen, advances>>

\* the calls in the intended order: per question one or more selectOption,
\* one submitAnswer, one nextQuestion
WalkSelectOption ==
    /\ SessionState \in {"Presenting", "AnswerSelected"}
    /\ \E index \in 0..(NumOptions - 1) :
          /\ selectOption(index)
          /\ chosen' = [chosen EXCEPT ![currentQuestionIndex + 1] = Num(index)]
    /\ Called("selectOption")
    /\ UNCHANGED <<genVars, bgVars, advances>>

WalkSubmitAnswer ==
    /\ SessionState = "AnswerSelected"
    /\ submitAnswer
    /\ Called("submitAnswer")
    /\ UNCHANGED <<genVars, bgVars, chosen, advances>>

WalkNextQuestion ==
    /\ SessionState = "Feedback"
    /\ nextQuestion
    /\ advances' = advances + 1
    /\ Called("nextQuestion")
    /\ UNCHANGED <<genVars, bgVars, chosen>>

-----------------------------------------------------------------------------
(* One call of parseAIResponse *)

\* the longest response, in pieces
MaxPieces == 4

\* what a response is made of
Pieces == {FenceJson, Fence, "\n", Prose, BrokenObject, "{valid}", "42"}

\* the strings parseAIResponse is called with
ParseInputs == UNION {{Str(s) : s \in [1..n -> Pieces]} : n \in 0..MaxPieces}

CallParseAIResponse ==
    /\ parseResult = Undefined
    /\ parseResult' = parseAIResponse(rawResponse)
    /\ UNCHANGED <<rawResponse, fallbackResult, intervalVars, uiVars, storeVars, procs,
                   faults, scheduled, genVars, quizVars, histVars>>

-----------------------------------------------------------------------------
(* One call of generateFallbackStudyModule *)

Word(c) == <<"w", "o", "r", "d", c>>

\* segment texts: mixed case, a repeated word, a stoplist word, a token with
\* a digit and a short word
MixedText == << <<"L","e","a","r","n">>, <<"l","e","a","r","n">>,
               <<"a","b","o","u","t">>, <<"t","h","i","s">>,
               <<"d","a","t","a","2","x">>, <<"t","i","n","y">> >>
\* one more distinct word than KeyTermLimit
ManyWordsText == [i \in 1..9 |-> Word(LowerCase[i])]
\* the last of them twice more
LateWordText == <<Word("i"), Word("i")>>
\* a word that names a property of Object.prototype
PrototypeText == << <<"l","e","a","r","n">>, <<"c","o","n","s","t","r","u","c","t","o","r">>,
                   <<"a","b","o","u","t">>, <<"a","b","o","u","t">> >>

TranscriptsOver(texts, n) ==
    {[i \in 1..n |-> [text |-> t[i], startTime |-> 5 * (i - 1)]] : t \in [1..n -> texts]}

\* the transcripts generateFallbackStudyModule is called with
FallbackInputs ==
    {Arr(t) : t \in UNION {TranscriptsOver({MixedText, ManyWordsText, LateWordText}, n)
                              \cup TranscriptsOver({MixedText, PrototypeText}, n) :
                           n \in 0..MaxSegments}}

\* generateFallbackStudyModule with any of the key-term lists the sort can leave
CallGenerateFallbackStudyModule ==
    /\ fallbackResult = Undefined
    /\ \E keyTerms \in KeyTermOutcomes(transcriptData.items) :
          fallbackResult' = Returned(StudyModule(
              generateBasicSummary(transcriptData.items),
              Arr([i \in DOMAIN keyTerms |-> Str(keyTerms[i])]),
              generateBasicQuiz(transcriptData.items)))
    /\ UNCHANGED <<rawResponse, parseResult, intervalVars, uiVars, storeVars, procs,
                   faults, scheduled, genVars, quizVars, histVars>>

-----------------------------------------------------------------------------
(* EchoBackgroundService: the video library, the review schedule and the   *)
(* alarms (src/background.js).  A library record and a schedule entry are  *)
(* objects; srsData and alarms are maps from a videoId to an entry and to  *)
(* the time of the alarm 'echo_review_<videoId>'.  A handler runs up to    *)
(* its next await in one step; procs holds, per slot, the invocation in    *)
(* flight with the local variables it carries over the await.              *)

\* the longest interval calculateNextInterval is called with
MaxInterval == 64
\* the times Date.now() and a review date take are 1..MaxTime
MaxTime == 2
\* scheduleReview is not sent any more for a video scheduled this often
MaxRepetitions == 2
\* at most MaxNotifications review notifications are created
MaxNotifications == 2
\* no study session is started any more for a video studied this often
MaxStudyCount == 2
\* the chrome API calls that may fail in a run with failures
MaxFaults == 1

\* srsData[videoId]?.easeFactor || 2.5, counted in tenths
DefaultEaseFactor == 25
\* Math.min(currentInterval * 2, 30)
IntervalCap == 30

VideoIds == {Str(<<"v1">>), Str(<<"v2">>)}
\* where handlers run: for the requests of the popup and of the content
\* script
Slots == {"popup", "content"}
\* 'video_' + Date.now() + '_' + Math.random()...
GeneratedIds == {Str(<<"video_1">>), Str(<<"video_2">>)}

\* a || b
Or(a, b) == IF Truthy(a) THEN a ELSE b

\* map[key] of an object used as a map
Lookup(map, key) == IF key \in DOMAIN map THEN map[key] ELSE Undefined

\* map[key]?.name || default
EntryProp(map, key, name, default) ==
    IF key \in DOMAIN map THEN Or(Prop(map[key], name), default) ELSE default

\* map[key] = value on a copy of map
SetKey(map, key, value) ==
    [k \in DOMAIN map \cup {key} |-> IF k = key THEN value ELSE map[k]]

\* delete map[key] on a copy of map
DeleteKey(map, key) == [k \in DOMAIN map \ {key} |-> map[k]]

\* { ...a, ...b }; spreading undefined adds no property
Spread(a, b) ==
    LET fa == IF a.type = "object" THEN DOMAIN a ELSE {}
        fb == IF b.type = "object" THEN DOMAIN b ELSE {}
    IN [f \in fa \cup fb \cup {"type"} |->
           IF f = "type" THEN "object"
           ELSE IF f \in fb THEN b[f] ELSE a[f]]

\* library.findIndex(video => video.videoId === videoId)
findIndex(lib, videoId) ==
    LET found == {i \in DOMAIN lib : lib[i].videoId = videoId}
    IN IF found = {} THEN -1
       ELSE (CHOOSE i \in found : \A j \in found : i <= j) - 1

\* the data extractVideoData of the content script sends with 'addVideo'
\* (the title stands for the fields scraped from the page)
ExtractedVideoData(videoId, title) ==
    [type |-> "object", videoId |-> videoId, title |-> Str(<<title>>)]

\* 'addVideo' data that also sets difficulty, tags and notes
AnnotatedVideoData(videoId) ==
    [type |-> "object", videoId |-> videoId, title |-> Str(<<"A">>),
     difficulty |-> Str(<<"hard">>), tags |-> Arr(<<Str(<<"exam">>)>>),
     notes |-> Str(<<"n">>)]

\* request.reviewDate: a Date, or the string left of one that was
\* serialised as JSON on its way
ReviewDates ==
    {[type |-> "date", time |-> t] : t \in 1..MaxTime} \cup {Str(<<"iso">>)}

-----------------------------------------------------------------------------
(* calculateNextInterval *)

\* Mutant of calculateNextInterval: every interval is doubled
calculateNextIntervalDoubles(currentInterval) ==
    Min(currentInterval * 2, IntervalCap)

\* Mutant of calculateNextInterval: the 6-day step taken at 1
calculateNextIntervalSixDays(currentInterval) ==
    IF currentInterval = 1 THEN 6 ELSE Min(currentInterval * 2, IntervalCap)

calculateNextInterval(currentInterval) ==
    IF currentInterval = 1 THEN 1
    ELSE IF currentInterval = 1 THEN 6
    ELSE Min(currentInterval * 2, IntervalCap)

\* which return statement of calculateNextInterval runs
IntervalBranch(currentInterval) ==
    IF currentInterval = 1 THEN "first"
    ELSE IF currentInterval = 1 THEN "second"
    ELSE "third"

-----------------------------------------------------------------------------
(* The library and schedule functions, on the collection they read *)

\* the object pushed for a new video, after ...videoData
NewVideoFields(generatedId) ==
    [type |-> "object", id |-> generatedId, studyCount |-> Num(0),
     lastStudied |-> Null, difficulty |-> Str(<<"medium">>),
     tags |-> Arr(<<>>), notes |-> Str(<<>>)]

\* Mutant of addVideoToLibrary: the record is pushed without the look-up
addVideoToLibraryPushes(lib, videoData, generatedId) ==
    Append(lib, Spread(videoData, NewVideoFields(generatedId)))

\* Mutant of addVideoToLibrary: an existing record is replaced, not merged
addVideoToLibraryReplaces(lib, videoData, generatedId) ==
    LET existingIndex == findIndex(lib, videoData.videoId)
    IN IF existingIndex >= 0
       THEN [lib EXCEPT ![existingIndex + 1] = videoData]
       ELSE Append(lib, Spread(videoData, NewVideoFields(generatedId)))

\* the library addVideoToLibrary saves
addVideoToLibrary(lib, videoData, generatedId) ==
    LET existingIndex == findIndex(lib, videoData.videoId)
    IN IF existingIndex >= 0
       THEN [lib EXCEPT ![existingIndex + 1] = Spread(@, videoData)]
       ELSE Append(lib, Spread(videoData, NewVideoFields(generatedId)))

\* the library removeVideoFromLibrary saves
removeVideoFromLibrary(lib, videoId) ==
    SelectSeq(lib, LAMBDA video : video.videoId # videoId)

\* the library updateVideoInLibrary saves when it found the video
updateVideoInLibrary(lib, videoId, updateData) ==
    LET videoIndex == findIndex(lib, videoId)
    IN [lib EXCEPT ![videoIndex + 1] = Spread(@, updateData)]

\* the data updateVideoStudyCount of the popup sends with 'updateVideo'
StudyData(video, now) ==
    [type |-> "object",
     studyCount |-> Num(Or(Prop(video, "studyCount"), Num(0)).num + 1),
     lastStudied |-> Num(now)]

\* Mutant of ScheduleEntry: the repetitions start over at every call
ScheduleEntryRestarts(srs, videoId, reviewDate) ==
    [type |-> "object",
     nextReview |-> Num(reviewDate.time),
     interval |-> Num(calculateNextInterval(
                     EntryProp(srs, videoId, "interval", Num(1)).num)),
     easeFactor |-> EntryProp(srs, videoId, "easeFactor", Num(DefaultEaseFactor)),
     repetitions |-> Num(1)]

\* the entry scheduleVideoReview writes to srsData[videoId]
ScheduleEntry(srs, videoId, reviewDate) ==
    [type |-> "object",
     nextReview |-> Num(reviewDate.time),
     interval |-> Num(calculateNextInterval(
                     EntryProp(srs, videoId, "interval", Num(1)).num)),
     easeFactor |-> EntryProp(srs, videoId, "easeFactor", Num(DefaultEaseFactor)),
     repetitions |-> Num(EntryProp(srs, videoId, "repetitions", Num(0)).num + 1)]

-----------------------------------------------------------------------------
(* Handler invocations *)

NoProcess ==
    [pc |-> "idle", caller |-> "none", action |-> "none", videoId |-> Undefined,
     data |-> Undefined, read |-> Undefined, response |-> Undefined,
     failed |-> "none"]

\* a handler entered by caller, about to make its first chrome API call
Invocation(caller, action, videoId, data, pc) ==
    [pc |-> pc, caller |-> caller, action |-> action, videoId |-> videoId,
     data |-> data, read |-> Undefined, response |-> Undefined,
     failed |-> "none"]

\* { success: true }, { success: true, data } and
\* { success: false, error: error.message }
Success == [type |-> "object", success |-> TRUE]
SuccessWith(data) == [type |-> "object", success |-> TRUE, data |-> data]
Failure(message) == [type |-> "object", success |-> FALSE, error |-> message]

\* the invocation ends: handleMessage answers with sendResponse; the popup's
\* updateVideoStudyCount and handleReviewAlarm hand nothing to anyone
Completes(proc, response) ==
    CASE proc.caller = "handleMessage" ->
            [proc EXCEPT !.pc = "done", !.response = response]
      \* the answer is on its way to the popup's scheduleReview
      [] proc.caller = "scheduleReview" ->
            [proc EXCEPT !.pc = "answered", !.response = response]
      [] OTHER ->
            [proc EXCEPT !.pc = "done", !.response = Undefined]

\* an error leaves the function: the catch of handleMessage answers failure
Throws(proc, message) == Completes(proc, Failure(message))

\* a chrome API call resolves (TRUE) or rejects (FALSE)
Outcomes == IF faults > 0 THEN BOOLEAN ELSE {TRUE}

\* the call the invocation of slot p awaits settles and the invocation goes
\* on as proc; failed keeps the call that rejected (not program state)
Settles(p, ok, proc) ==
    /\ procs' = [procs EXCEPT ![p] = IF ok THEN proc
                                     ELSE [proc EXCEPT !.failed = procs[p].pc]]
    /\ faults' = IF ok THEN faults ELSE faults - 1

\* getVideoLibrary: result[this.storageKey] || [], and [] when the read fails
getVideoLibrary(ok) == IF ok THEN library ELSE <<>>

\* getSRSData: result[this.srsKey] || {}, and {} when the read fails
getSRSData(ok) == IF ok THEN srsData ELSE <<>>

\* Mutant of handleReviewAlarm: the notification is created whether or not
\* the video was found
handleReviewAlarmNotifiesAlways(got, index) == [got EXCEPT !.pc = "notify"]

\* handleReviewAlarm after its getVideoLibrary: if (video) it goes on to
\* chrome.notifications.create, otherwise it is done
handleReviewAlarm(got, index) ==
    IF index >= 0 THEN [got EXCEPT !.pc = "notify"]
    ELSE Completes(got, Undefined)

\* what each caller of getVideoLibrary does with the library it got
AfterGetLibrary(proc, lib, now) ==
    LET index == findIndex(lib, proc.videoId)
        got == [proc EXCEPT !.read = lib]
    IN CASE proc.action \in {"addVideo", "removeVideo"} ->
                [got EXCEPT !.pc = "saveLibrary"]
         [] proc.action = "updateVideo" ->
                IF index >= 0 THEN [got EXCEPT !.pc = "saveLibrary"]
                ELSE Completes(got, Success)
         [] proc.action = "getVideos" ->
                IF proc.caller = "handleMessage"
                THEN Completes(got, SuccessWith(Arr(lib)))
                ELSE IF index >= 0
                THEN [got EXCEPT !.action = "updateVideo",
                                 !.data = StudyData(lib[index + 1], now),
                                 !.pc = "getLibrary"]
                ELSE Completes(got, Undefined)
         [] proc.action = "reviewAlarm" -> handleReviewAlarm(got, index)

\* chrome.storage.local.get of the library settles
GetLibrary(p) ==
    /\ p \in DOMAIN procs
    /\ procs[p].pc = "getLibrary"
    /\ \E ok \in Outcomes, now \in 1..MaxTime :
          Settles(p, ok, AfterGetLibrary(procs[p], getVideoLibrary(ok), now))
    /\ UNCHANGED <<storeVars, scheduled, callVars, uiVars, genVars, quizVars, histVars>>

\* Mutant of LibraryToSave: addVideoToLibrary works on the stored library
LibraryToSaveStored(proc, generatedId) ==
    CASE proc.action = "addVideo" ->
            addVideoToLibrary(library, proc.data, generatedId)
      [] proc.action = "removeVideo" ->
            removeVideoFromLibrary(proc.read, proc.videoId)
      [] proc.action = "updateVideo" ->
            updateVideoInLibrary(proc.read, proc.videoId, proc.data)

\* the library each caller hands to saveVideoLibrary
LibraryToSave(proc, generatedId) ==
    CASE proc.action = "addVideo" ->
            addVideoToLibrary(proc.read, proc.data, generatedId)
      [] proc.action = "removeVideo" ->
            removeVideoFromLibrary(proc.read, proc.videoId)
      [] proc.action = "updateVideo" ->
            updateVideoInLibrary(proc.read, proc.videoId, proc.data)

\* chrome.storage.local.set of the library settles; after it
\* removeVideoFromLibrary goes on to cancelVideoReview
SaveLibrary(p) ==
    /\ p \in DOMAIN procs
    /\ procs[p].pc = "saveLibrary"
    /\ \E ok \in Outcomes, generatedId \in GeneratedIds :
          /\ library' = IF ok THEN LibraryToSave(procs[p], generatedId) ELSE library
          /\ Settles(p, ok,
                     IF ~ok THEN Throws(procs[p], "storage")
                     ELSE IF procs[p].action = "removeVideo"
                     THEN [procs[p] EXCEPT !.pc = "clearAlarm"]
                     ELSE Completes(procs[p], Success))
    /\ UNCHANGED <<srsData, alarms, scheduled, callVars, uiVars, genVars, quizVars, histVars>>

\* after chrome.alarms.clear: scheduleVideoReview evaluates
\* reviewDate.getTime() for chrome.alarms.create, cancelVideoReview reads
\* the schedule; cancelVideoReview catches and logs what it throws
AfterClearAlarm(proc, ok) ==
    IF proc.action = "scheduleReview"
    THEN IF ~ok THEN Throws(proc, "alarms")
         ELSE IF proc.data.type # "date"
         THEN Throws(proc, "reviewDate.getTime is not a function")
         ELSE [proc EXCEPT !.pc = "createAlarm"]
    ELSE IF ok THEN [proc EXCEPT !.pc = "getSRS"]
         ELSE Completes(proc, Success)

\* chrome.alarms.clear settles
ClearAlarm(p) ==
    /\ p \in DOMAIN procs
    /\ procs[p].pc = "clearAlarm"
    /\ \E ok \in Outcomes :
          /\ alarms' = IF ok THEN DeleteKey(alarms, procs[p].videoId) ELSE alarms
          /\ Settles(p, ok, AfterClearAlarm(procs[p], ok))
    /\ UNCHANGED <<library, srsData, scheduled, callVars, uiVars, genVars, quizVars, histVars>>

\* chrome.alarms.create settles
CreateAlarm(p) ==
    /\ p \in DOMAIN procs
    /\ procs[p].pc = "createAlarm"
    /\ \E ok \in Outcomes :
          /\ alarms' = IF ok THEN SetKey(alarms, procs[p].videoId,
                                         Num(procs[p].data.time))
                       ELSE alarms
          /\ Settles(p, ok, IF ok THEN [procs[p] EXCEPT !.pc = "getSRS"]
                            ELSE Throws(procs[p], "alarms"))
    /\ UNCHANGED <<library, srsData, scheduled, callVars, uiVars, genVars, quizVars, histVars>>

\* chrome.storage.local.get of the schedule settles
GetSRS(p) ==
    /\ p \in DOMAIN procs
    /\ procs[p].pc = "getSRS"
    /\ \E ok \in Outcomes :
          Settles(p, ok, [procs[p] EXCEPT !.read = getSRSData(ok), !.pc = "saveSRS"])
    /\ UNCHANGED <<storeVars, scheduled, callVars, uiVars, genVars, quizVars, histVars>>

\* Mutant of SRSDataToSave: cancelVideoReview saves an empty map
SRSDataToSaveEmpties(proc) ==
    CASE proc.action = "scheduleReview" ->
            SetKey(proc.read, proc.videoId,
                   ScheduleEntry(proc.read, proc.videoId, proc.data))
      [] proc.action = "removeVideo" -> <<>>
      [] proc.action = "updateSRSData" ->
            SetKey(proc.read, proc.videoId,
                   Spread(Lookup(proc.read, proc.videoId), proc.data))

\* the map each caller hands to saveSRSData
SRSDataToSave(proc) ==
    CASE proc.action = "scheduleReview" ->
            SetKey(proc.read, proc.videoId,
                   ScheduleEntry(proc.read, proc.videoId, proc.data))
      [] proc.action = "removeVideo" ->
            DeleteKey(proc.read, proc.videoId)
      [] proc.action = "updateSRSData" ->
            SetKey(proc.read, proc.videoId,
                   Spread(Lookup(proc.read, proc.videoId), proc.data))

\* chrome.storage.local.set of the schedule settles; cancelVideoReview
\* catches and logs what it throws
SaveSRS(p) ==
    /\ p \in DOMAIN procs
    /\ procs[p].pc = "saveSRS"
    /\ \E ok \in Outcomes :
          /\ srsData' = IF ok THEN SRSDataToSave(procs[p]) ELSE srsData
          /\ scheduled' =
                IF ~ok \/ procs[p].action = "updateSRSData" THEN scheduled
                ELSE [scheduled EXCEPT ![procs[p].videoId] =
                         IF procs[p].action = "scheduleReview" THEN @ + 1 ELSE 0]
          /\ Settles(p, ok,
                     IF ok \/ procs[p].action = "removeVideo"
                     THEN Completes(procs[p], Success)
                     ELSE Throws(procs[p], "storage"))
    /\ UNCHANGED <<library, alarms, callVars, uiVars, genVars, quizVars, histVars>>

\* library.find(v => v.videoId === videoId)
find(lib, videoId) ==
    IF findIndex(lib, videoId) >= 0 THEN lib[findIndex(lib, videoId) + 1]
    ELSE Undefined

\* ${v} in a template literal, for the titles a video can have
Interpolated(v) == IF v.type = "string" THEN v.chars ELSE <<v.type>>

\* the notification handleReviewAlarm creates for video
ReviewNotification(video) ==
    [type |-> "basic",
     title |-> "Echo - Time to Review!",
     message |-> Str(<<"It's time to review \"">>
                     \o Interpolated(Prop(video, "title")) \o <<"\"">>)]

\* chrome.notifications.create settles: handleReviewAlarm goes on to
\* updateVideoInLibrary(videoId, { lastReviewed: Date.now() }), and
\* catches and logs what is thrown
Notify(p) ==
    /\ p \in DOMAIN procs
    /\ procs[p].pc = "notify"
    /\ \E ok \in Outcomes, now \in 1..MaxTime :
          /\ notifications' =
                IF ok THEN Append(notifications,
                                  ReviewNotification(find(procs[p].read,
                                                          procs[p].videoId)))
                ELSE notifications
          /\ Settles(p, ok,
                     IF ok THEN [procs[p] EXCEPT
                                    !.action = "updateVideo",
                                    !.data = [type |-> "object",
                                              lastReviewed |-> Num(now)],
                                    !.pc = "getLibrary"]
                     ELSE Completes(procs[p], Undefined))
    /\ UNCHANGED <<storeVars, scheduled, callVars, popupNotification, genVars,
                   quizVars, histVars>>

\* a handler is entered in a free slot
Enters(p, invocation) ==
    /\ p \in DOMAIN procs
    /\ procs[p].pc \in {"idle", "done"}
    /\ procs' = [procs EXCEPT ![p] = invocation]

\* chrome.runtime.onMessage delivers request to handleMessage, which runs
\* the function of request.action up to its first chrome API call
handleMessage(p, request) ==
    /\ request.action = "scheduleReview" => scheduled[request.videoId] < MaxRepetitions
    /\ Enters(p, Invocation("handleMessage", request.action, request.videoId,
                            request.data,
                            CASE request.action = "scheduleReview" -> "clearAlarm"
                              [] request.action = "updateSRSData" -> "getSRS"
                              [] OTHER -> "getLibrary"))
    /\ UNCHANGED <<storeVars, faults, scheduled, callVars, uiVars, genVars, quizVars, histVars>>

\* a request: { action, videoId, data } (for 'addVideo' the videoId is
\* data.videoId, for 'scheduleReview' the data is reviewDate)
Request(action, videoId, data) ==
    [action |-> action, videoId |-> videoId, data |-> data]

\* the stored studyCount of videoId, 0 when it is not in the library
StudyCount(videoId) ==
    LET index == findIndex(library, videoId)
    IN IF index >= 0 THEN library[index + 1].studyCount.num ELSE 0

\* the popup records a study session: it sends 'getVideos', and
\* 'updateVideo' once that is answered
updateVideoStudyCount(p, videoId) ==
    /\ StudyCount(videoId) < MaxStudyCount
    /\ Enters(p, Invocation("updateVideoStudyCount", "getVideos", videoId,
                            Undefined, "getLibrary"))
    /\ UNCHANGED <<storeVars, faults, scheduled, callVars, uiVars, genVars, quizVars, histVars>>

\* showNotification(message, type) of the popup
Notification(message, type) == [message |-> message, type |-> type]

\* the popup's scheduleReview up to its await: it sends 'scheduleReview' for
\* this.currentVideo, and handleMessage receives the reviewDate as the
\* message channel delivers it; reading videoId of a null currentVideo
\* throws into the catch
scheduleReview(p, currentVideo, reviewDate) ==
    IF currentVideo = Null
    THEN /\ p \in DOMAIN procs
         /\ popupNotification' = Notification("Failed to schedule review", "error")
         /\ UNCHANGED <<notifications, procs, storeVars, faults, scheduled, callVars,
                        genVars, quizVars, histVars>>
    ELSE /\ scheduled[currentVideo.videoId] < MaxRepetitions
         /\ Enters(p, Invocation("scheduleReview", "scheduleReview",
                                 currentVideo.videoId, reviewDate, "clearAlarm"))
         /\ UNCHANGED <<storeVars, faults, scheduled, callVars, uiVars, genVars,
                        quizVars, histVars>>

\* the rest of the popup's scheduleReview, once sendMessageToBackground
\* has resolved with the response
scheduleReviewResumes(p) ==
    /\ p \in DOMAIN procs
    /\ procs[p].pc = "answered"
    /\ procs' = [procs EXCEPT ![p].pc = "done"]
    /\ popupNotification' = Notification("Review scheduled successfully!", "success")
    /\ UNCHANGED <<notifications, storeVars, faults, scheduled, callVars, genVars,
                   quizVars, histVars>>

\* chrome.alarms fires the one-shot alarm of videoId: the listener calls
\* handleReviewAlarm
AlarmFires(p, videoId) ==
    /\ videoId \in DOMAIN alarms
    /\ Len(notifications) < MaxNotifications
    /\ Enters(p, Invocation("handleReviewAlarm", "reviewAlarm", videoId,
                            Undefined, "getLibrary"))
    /\ alarms' = DeleteKey(alarms, videoId)
    /\ UNCHANGED <<library, srsData, faults, scheduled, callVars, uiVars, genVars, quizVars, histVars>>

\* one call of calculateNextInterval
CallCalculateNextInterval ==
    /\ intervalOutput = Undefined
    /\ intervalOutput' = Num(calculateNextInterval(intervalInput))
    /\ UNCHANGED <<intervalInput, aiVars, uiVars, storeVars, procs, faults,
                   scheduled, genVars, quizVars, histVars>>

-----------------------------------------------------------------------------
(* Specifications *)

\* new EchoPopup(): the fields the constructor sets
PopupConstructed ==
    /\ currentQuiz = Null
    /\ currentQuestionIndex = 0
    /\ selectedAnswer = Null
    /\ quizScore = 0
    /\ lastOp = NoOp
    /\ chosen = <<>>
    /\ advances = 0

GeneratorIdle ==
    /\ genPc = "idle"
    /\ genOutcome = Pending
    /\ aiPrompts = 0
    /\ aiReply = NoReply

\* the service worker as started on an empty chrome.storage.local, with the
\* slots handlers can run in and the chrome API calls that may fail
ServiceStarted(slots, failures) ==
    /\ library = <<>>
    /\ srsData = <<>>
    /\ alarms = <<>>
    /\ procs = [p \in slots |-> NoProcess]
    /\ faults = failures
    /\ scheduled = [videoId \in VideoIds |-> 0]
    /\ notifications = <<>>
    /\ popupNotification = Null

\* no call of parseAIResponse or generateFallbackStudyModule is checked
HelpersIdle ==
    /\ rawResponse = Str(<<>>)
    /\ parseResult = Undefined
    /\ fallbackResult = Undefined

\* the service at rest, for the runs of the generator and the popup
BackgroundIdle ==
    /\ ServiceStarted({}, 0)
    /\ intervalInput = 1
    /\ intervalOutput = Undefined
    /\ HelpersIdle

\* one call of generateStudyModule on any input
InitGen ==
    /\ transcriptData \in TranscriptInputs
    /\ GeneratorIdle
    /\ BackgroundIdle
    /\ PopupConstructed
    /\ submitDisabled = TRUE
    /\ feedbackHidden = TRUE
    /\ quizCompleteHidden = TRUE

NextGen == generateStudyModule \/ createPromptSettles

SpecGen == InitGen /\ [][NextGen]_vars

\* a quiz session; the DOM flags are those of the page as loaded
InitQuiz ==
    /\ transcriptData = Null
    /\ GeneratorIdle
    /\ BackgroundIdle
    /\ PopupConstructed
    /\ submitDisabled \in BOOLEAN
    /\ feedbackHidden \in BOOLEAN
    /\ quizCompleteHidden \in BOOLEAN

NextQuiz ==
    \/ StartSession
    \/ CallSelectOption
    \/ CallSubmitAnswer
    \/ CallNextQuestion
    \/ CallRetakeQuiz

SpecQuiz == InitQuiz /\ [][NextQuiz]_vars

NextWalk ==
    \/ StartSession
    \/ WalkSelectOption
    \/ WalkSubmitAnswer
    \/ WalkNextQuestion

SpecWalk == InitQuiz /\ [][NextWalk]_vars

\* the popup and the generator at rest, for the runs of the service
FrontIdle ==
    /\ transcriptData = Null
    /\ GeneratorIdle
    /\ PopupConstructed
    /\ submitDisabled = TRUE
    /\ feedbackHidden = TRUE
    /\ quizCompleteHidden = TRUE

\* the service at rest, on an empty chrome.storage.local
ServiceIdle ==
    /\ ServiceStarted({}, 0)
    /\ intervalInput = 1
    /\ intervalOutput = Undefined

\* one call of parseAIResponse on any response
InitParse ==
    /\ rawResponse \in ParseInputs
    /\ parseResult = Undefined
    /\ fallbackResult = Undefined
    /\ ServiceIdle
    /\ FrontIdle

SpecParse == InitParse /\ [][CallParseAIResponse]_vars

\* one call of generateFallbackStudyModule on any transcript
InitFallback ==
    /\ transcriptData \in FallbackInputs
    /\ GeneratorIdle
    /\ PopupConstructed
    /\ submitDisabled = TRUE
    /\ feedbackHidden = TRUE
    /\ quizCompleteHidden = TRUE
    /\ HelpersIdle
    /\ ServiceIdle

SpecFallback == InitFallback /\ [][CallGenerateFallbackStudyModule]_vars

\* one call of calculateNextInterval on any interval
InitInterval ==
    /\ intervalInput \in 1..MaxInterval
    /\ intervalOutput = Undefined
    /\ HelpersIdle
    /\ ServiceStarted({}, 0)
    /\ FrontIdle

SpecInterval == InitInterval /\ [][CallCalculateNextInterval]_vars

\* the service with the slots handlers run in (one slot: one request at a
\* time) and the chrome API calls that may fail
InitService(slots, failures) ==
    /\ ServiceStarted(slots, failures)
    /\ intervalInput = 1
    /\ intervalOutput = Undefined
    /\ HelpersIdle
    /\ FrontIdle

\* scheduling reviews, removing videos and setting the interval of one
NextSchedule ==
    \E p \in Slots :
        \/ \E videoId \in VideoIds, reviewDate \in ReviewDates :
              handleMessage(p, Request("scheduleReview", videoId, reviewDate))
        \/ \E videoId \in VideoIds :
              handleMessage(p, Request("removeVideo", videoId, Undefined))
        \/ handleMessage(p, Request("updateSRSData", Str(<<"v1">>),
                                    [type |-> "object", interval |-> Num(2)]))
        \/ GetLibrary(p)
        \/ SaveLibrary(p)
        \/ ClearAlarm(p)
        \/ CreateAlarm(p)
        \/ GetSRS(p)
        \/ SaveSRS(p)

\* one request at a time, the chrome APIs working
SpecSchedule == InitService({"popup"}, 0) /\ [][NextSchedule]_vars

\* the data of the 'addVideo' requests
VideoInputs ==
    {ExtractedVideoData(Str(<<"v1">>), "A"), ExtractedVideoData(Str(<<"v1">>), "B"),
     AnnotatedVideoData(Str(<<"v1">>)), ExtractedVideoData(Str(<<"v2">>), "A")}

\* adding videos and recording study sessions
NextLibrary ==
    \E p \in Slots :
        \/ \E videoData \in VideoInputs :
              handleMessage(p, Request("addVideo", videoData.videoId, videoData))
        \/ \E videoId \in VideoIds : updateVideoStudyCount(p, videoId)
        \/ GetLibrary(p)
        \/ SaveLibrary(p)

\* one request at a time, the chrome APIs working
SpecLibrary == InitService({"popup"}, 0) /\ [][NextLibrary]_vars

\* every mutation of the library and the schedule
NextFail ==
    \E p \in Slots :
        \/ \E videoId \in VideoIds :
              handleMessage(p, Request("addVideo", videoId,
                                       ExtractedVideoData(videoId, "A")))
        \/ \E videoId \in VideoIds :
              handleMessage(p, Request("removeVideo", videoId, Undefined))
        \/ \E reviewDate \in ReviewDates :
              handleMessage(p, Request("scheduleReview", Str(<<"v1">>), reviewDate))
        \/ handleMessage(p, Request("updateSRSData", Str(<<"v1">>),
                                    [type |-> "object", interval |-> Num(2)]))
        \/ updateVideoStudyCount(p, Str(<<"v1">>))
        \/ GetLibrary(p)
        \/ SaveLibrary(p)
        \/ ClearAlarm(p)
        \/ CreateAlarm(p)
        \/ GetSRS(p)
        \/ SaveSRS(p)

\* one request at a time, chrome API calls failing
SpecFail == InitService({"popup"}, MaxFaults) /\ [][NextFail]_vars

\* adding videos
NextRace ==
    \E p \in Slots :
        \/ \E videoData \in VideoInputs :
              handleMessage(p, Request("addVideo", videoData.videoId, videoData))
        \/ GetLibrary(p)
        \/ SaveLibrary(p)

\* two requests in flight, the chrome APIs working
SpecRace == InitService(Slots, 0) /\ [][NextRace]_vars

\* adding one video and recording study sessions for it
NextStudy ==
    \E p \in Slots :
        \/ handleMessage(p, Request("addVideo", Str(<<"v1">>),
                                    ExtractedVideoData(Str(<<"v1">>), "A")))
        \/ updateVideoStudyCount(p, Str(<<"v1">>))
        \/ GetLibrary(p)
        \/ SaveLibrary(p)

\* two requests in flight, the chrome APIs working
SpecStudy == InitService(Slots, 0) /\ [][NextStudy]_vars

\* the popup's 'Schedule review' button, one click at a time
NextPopup ==
    \E p \in Slots :
        \/ \E currentVideo \in {Null} \cup {ExtractedVideoData(videoId, "A") :
                                                videoId \in VideoIds},
              reviewDate \in ReviewDates :
              scheduleReview(p, currentVideo, reviewDate)
        \/ ClearAlarm(p)
        \/ CreateAlarm(p)
        \/ GetSRS(p)
        \/ SaveSRS(p)
        \/ scheduleReviewResumes(p)

SpecPopup == InitService({"popup"}, 0) /\ [][NextPopup]_vars

\* no handler in flight holds a studyCount of MaxStudyCount or more, in the
\* data it is to write or in the library it read and is to save (a session
\* is not started otherwise: stale writes would let the count grow forever)
StudyCountsHeldBelowMax ==
    \A q \in DOMAIN procs :
        /\ Or(Prop(procs[q].data, "studyCount"), Num(0)).num < MaxStudyCount
        /\ procs[q].pc = "saveLibrary" =>
               \A i \in DOMAIN procs[q].read :
                   procs[q].read[i].studyCount.num < MaxStudyCount

\* adding and removing one video and recording study sessions for it
NextRemove ==
    \E p \in Slots :
        \/ handleMessage(p, Request("addVideo", Str(<<"v1">>),
                                    ExtractedVideoData(Str(<<"v1">>), "A")))
        \/ handleMessage(p, Request("removeVideo", Str(<<"v1">>), Undefined))
        \/ StudyCountsHeldBelowMax /\ updateVideoStudyCount(p, Str(<<"v1">>))
        \/ GetLibrary(p)
        \/ SaveLibrary(p)
        \/ ClearAlarm(p)
        \/ GetSRS(p)
        \/ SaveSRS(p)

\* two requests in flight, the chrome APIs working
SpecRemove == InitService(Slots, 0) /\ [][NextRemove]_vars

\* scheduling reviews of one video, in the library or not, and its alarm
\* going off, while the video is added
NextAlarm ==
    \E p \in Slots :
        \/ handleMessage(p, Request("addVideo", Str(<<"v1">>),
                                    ExtractedVideoData(Str(<<"v1">>), "A")))
        \/ handleMessage(p, Request("scheduleReview", Str(<<"v1">>),
                                    [type |-> "date", time |-> 1]))
        \/ AlarmFires(p, Str(<<"v1">>))
        \/ GetLibrary(p)
        \/ Notify(p)
        \/ SaveLibrary(p)
        \/ ClearAlarm(p)
        \/ CreateAlarm(p)
        \/ GetSRS(p)
        \/ SaveSRS(p)

\* an alarm handled while a request is in flight, the chrome APIs working
SpecAlarm == InitService(Slots, 0) /\ [][NextAlarm]_vars

-----------------------------------------------------------------------------
(* Properties of generateStudyModule (SpecGen) *)

NonEmptyTranscript ==
    IsArray(transcriptData) /\ Len(transcriptData.items) > 0

\* the AI call threw, returned an empty response, returned text that is not
\* JSON, or returned JSON that validateStudyModule rejects
AICallFailed ==
    \/ aiReply.kind = "rejects"
    \/ /\ aiReply.kind = "resolves"
       /\ \/ ~Truthy(aiReply.response)
          \/ parseAIResponse(aiReply.response).threw
          \/ validateStudyModule(parseAIResponse(aiReply.response).value).threw

\* C1: for every non-empty transcript array generateStudyModule never
\* rejects, and once it has settled after a failed AI call (a throw, an empty
\* response, text that is not JSON, JSON that fails validation) it has
\* resolved with the locally generated fallback module.
C1_NeverRejects ==
    NonEmptyTranscript =>
        /\ genOutcome.status # "rejected"
        /\ genPc = "done" => genOutcome.status = "resolved"
        /\ (genPc = "done" /\ AICallFailed) =>
               genOutcome.value = StudyModule(
                   generateBasicSummary(transcriptData.items),
                   Arr([i \in DOMAIN extractKeyTermsFromTranscript(transcriptData.items) |->
                           Str(extractKeyTermsFromTranscript(transcriptData.items)[i])]),
                   generateBasicQuiz(transcriptData.items))

\* C1 witness: the AI answered with JSON that fails validation and the call
\* resolved with a module of the fallback quiz
C1_Witness ==
    /\ NonEmptyTranscript
    /\ genPc = "done"
    /\ aiReply.kind = "resolves"
    /\ Truthy(aiReply.response)
    /\ ~parseAIResponse(aiReply.response).threw
    /\ validateStudyModule(parseAIResponse(aiReply.response).value).threw
    /\ genOutcome.status = "resolved"
    /\ genOutcome.value.quiz = generateBasicQuiz(transcriptData.items)

\* the validation contract of the specification, section 4.1
NonEmptyString(v) == v.type = "string" /\ v.chars # <<>>

QuestionInContract(q) ==
    /\ q.type = "object"
    /\ IsArray(Prop(q, "options"))
    /\ Len(Prop(q, "options").items) = 4
    /\ Prop(q, "correctAnswer").type = "number"
    /\ Prop(q, "correctAnswer").num \in 0..3
    /\ NonEmptyString(Prop(q, "explanation"))

SatisfiesContract(m) ==
    /\ m.type = "object"
    /\ NonEmptyString(Prop(m, "summary"))
    /\ IsArray(Prop(m, "keyTerms"))
    /\ IsArray(Prop(Prop(m, "quiz"), "questions"))
    /\ Prop(Prop(m, "quiz"), "questions").items # <<>>
    /\ \A i \in DOMAIN Prop(Prop(m, "quiz"), "questions").items :
          QuestionInContract(Prop(Prop(m, "quiz"), "questions").items[i])

\* C2: every study module generateStudyModule returns for a non-empty
\* transcript, from the AI or from the fallback, satisfies the validation
\* contract, a non-empty questions list included.
C2_ResultInContract ==
    (NonEmptyTranscript /\ genOutcome.status = "resolved") =>
        SatisfiesContract(genOutcome.value)

\* C3: called with the empty array, generateStudyModule fails (it does not
\* resolve with a study module) and does not call the AI service.
C3_EmptyTranscriptFails ==
    (transcriptData = Arr(<<>>) /\ genPc = "done") =>
        /\ genOutcome.status = "rejected"
        /\ aiPrompts = 0

-----------------------------------------------------------------------------
(* Properties of the quiz session (SpecQuiz, SpecWalk) *)

\* C4: after any sequence of selectOption, submitAnswer, nextQuestion and
\* retakeQuiz calls the score is within 0..N, N the number of questions.
C4_ScoreBounded ==
    currentQuiz # Null => quizScore \in 0..Len(Questions)

\* C5: a submitAnswer call made in any state but AnswerSelected (nothing
\* selected, the answer already submitted, the quiz finished) leaves the
\* score as it was, so a question counts at most once per attempt.
C5_SubmitOnlyWhenSelected ==
    [][(lastOp'.name = "submitAnswer" /\ SessionState # "AnswerSelected")
           => quizScore' = quizScore]_vars

\* C6: a selectOption call made once the answer was submitted, or once the
\* quiz is complete, changes neither the recorded selection nor whether the
\* answer can be submitted.
C6_SelectOnlyWhileUnanswered ==
    [][(lastOp'.name = "selectOption" /\ SessionState \in {"Feedback", "Complete"})
           => (selectedAnswer' = selectedAnswer /\ submitDisabled' = submitDisabled)]_vars

\* C7: the question index increases, and the quiz completes, only from the
\* Feedback state, that is after submitAnswer acted on the current question.
C7_AdvanceOnlyAfterSubmit ==
    [][(\/ currentQuestionIndex' = currentQuestionIndex + 1
        \/ (SessionState # "Complete" /\ SessionState' = "Complete"))
           => SessionState = "Feedback"]_vars

\* C8: after any sequence of calls the question index is within 0..N-1, and
\* a nextQuestion call at the last index finishes the quiz and leaves the
\* index where it was.
C8_IndexBounded ==
    currentQuiz # Null =>
        /\ currentQuestionIndex \in 0..(Len(Questions) - 1)
        /\ (lastOp.name = "nextQuestion" /\ lastOp.index = Len(Questions) - 1) =>
               /\ currentQuestionIndex = Len(Questions) - 1
               /\ ~quizCompleteHidden

\* C8 witness: nextQuestion was called at the last index of a quiz of three
\* questions, which is complete
C8_Witness ==
    /\ currentQuiz # Null
    /\ Len(Questions) = 3
    /\ lastOp.name = "nextQuestion"
    /\ lastOp.index = 2
    /\ currentQuestionIndex = 2
    /\ SessionState = "Complete"

\* the questions whose last selection before the submit was the correct answer
CorrectlyAnswered ==
    {i \in DOMAIN chosen : chosen[i] = Questions[i].correctAnswer}

\* C9: walked in the intended order, a quiz of N questions is complete
\* exactly after the N-th nextQuestion, and its final score is the number of
\* questions whose last selection before submit was the correct answer.
C9_WalkScore ==
    currentQuiz # Null =>
        /\ SessionState = "Complete" <=> advances = Len(Questions)
        /\ SessionState = "Complete" => quizScore = Cardinality(CorrectlyAnswered)

\* C9 witness: a walk of three questions is complete with two right answers
\* and one wrong
C9_Witness ==
    /\ currentQuiz # Null
    /\ Len(Questions) = 3
    /\ SessionState = "Complete"
    /\ advances = 3
    /\ quizScore = 2
    /\ Cardinality(CorrectlyAnswered) = 2

\* C10: retakeQuiz, from any state, leads to Presenting(0) with score 0 and
\* no selection, and leaves the study module as it was.
C10_RetakeResets ==
    [][lastOp'.name = "retakeQuiz" =>
           /\ currentQuestionIndex' = 0
           /\ quizScore' = 0
           /\ selectedAnswer' = Null
           /\ SessionState' = "Presenting"
           /\ currentQuiz' = currentQuiz]_vars

\* C10 witness: retakeQuiz was called on a complete quiz whose last question
\* was not the first, and the session is at Presenting(0) with score 0
C10_Witness ==
    /\ lastOp.name = "retakeQuiz"
    /\ lastOp.from = "Complete"
    /\ lastOp.index > 0
    /\ currentQuestionIndex = 0
    /\ quizScore = 0
    /\ SessionState = "Presenting"

-----------------------------------------------------------------------------
(* Properties of calculateNextInterval (SpecInterval) *)

IntervalReturned == intervalOutput # Undefined

\* C11: calculateNextInterval(p) is 1 for p = 1 and min(2 * p, 30) for every
\* other positive p; the result lies in 1..30; the return of the second branch
\* (the 6-day step) never runs, so a result of 6 is the doubling of 3.
C11_NextInterval ==
    IntervalReturned =>
        /\ intervalOutput.num = IF intervalInput = 1 THEN 1
                                ELSE Min(2 * intervalInput, IntervalCap)
        /\ intervalOutput.num \in 1..IntervalCap
        /\ IntervalBranch(intervalInput) # "second"
        /\ (intervalOutput.num = 6 => intervalInput = 3)

\* the capped case: 16 -> 30
C11_Witness ==
    /\ IntervalReturned
    /\ intervalInput = 16
    /\ intervalOutput.num = IntervalCap

-----------------------------------------------------------------------------
(* Properties of the review schedule (SpecSchedule): one request at a      *)
(* time, the chrome APIs working                                           *)

\* the step in which scheduleVideoReview of slot p saves and returns
ScheduleSaves(p) ==
    /\ procs[p].action = "scheduleReview"
    /\ procs[p].pc = "saveSRS"
    /\ procs'[p].pc = "done"
    /\ procs'[p].response = Success

\* C12: a successful scheduleVideoReview(id, when) leaves for id the entry
\* with nextReview = when, interval = calculateNextInterval(previous interval
\* or 1), repetitions = previous repetitions + 1 (1 without an entry) and the
\* previous easeFactor (2.5 without one); after k such calls from no entry
\* the repetitions are k.
C12_ScheduleReplacesEntry ==
    [][\A p \in DOMAIN procs :
          ScheduleSaves(p) =>
             LET id == procs[p].videoId
                 had(name) == id \in DOMAIN srsData /\ name \in DOMAIN srsData[id]
             IN /\ srsData'[id].nextReview = Num(procs[p].data.time)
                /\ srsData'[id].interval.num =
                      calculateNextInterval(IF had("interval")
                                            THEN srsData[id].interval.num ELSE 1)
                /\ srsData'[id].repetitions.num =
                      IF had("repetitions")
                      THEN srsData[id].repetitions.num + 1 ELSE 1
                /\ srsData'[id].easeFactor =
                      IF had("easeFactor")
                      THEN srsData[id].easeFactor ELSE Num(DefaultEaseFactor)
                /\ srsData'[id].repetitions.num = scheduled'[id]]_vars

\* a second call has saved, on an interval that was doubled
C12_Witness ==
    \E p \in DOMAIN procs :
        /\ procs[p].pc = "done"
        /\ procs[p].action = "scheduleReview"
        /\ procs[p].response = Success
        /\ procs[p].videoId \in DOMAIN procs[p].read
        /\ srsData[procs[p].videoId].repetitions.num = 2
        /\ srsData[procs[p].videoId].interval.num = 4

\* a step of cancelVideoReview, as removeVideoFromLibrary calls it in slot p
CancelStep(p) ==
    /\ procs[p].action = "removeVideo"
    /\ procs[p].pc \in {"clearAlarm", "getSRS", "saveSRS"}
    /\ procs'[p] # procs[p]

\* C13: cancelVideoReview(id) raises no error and leaves id without a
\* schedule entry and without an armed alarm; when id had neither (so also
\* when it is called twice in a row) it changes nothing; the entries and
\* alarms of the other ids stay as they are.
C13_CancelIdempotent ==
    [][\A p \in DOMAIN procs :
          CancelStep(p) =>
             LET id == procs[p].videoId
             IN /\ procs'[p].pc = "done" =>
                      /\ procs'[p].response = Success
                      /\ id \notin DOMAIN srsData'
                      /\ id \notin DOMAIN alarms'
                /\ \A other \in VideoIds \ {id} :
                      /\ Lookup(srsData', other) = Lookup(srsData, other)
                      /\ Lookup(alarms', other) = Lookup(alarms, other)
                /\ (id \notin DOMAIN srsData /\ id \notin DOMAIN alarms)
                      => UNCHANGED <<srsData, alarms>>]_vars

\* a cancellation that removed the entry of one id and kept the other's
C13_Witness ==
    \E p \in DOMAIN procs :
        /\ procs[p].pc = "done"
        /\ procs[p].action = "removeVideo"
        /\ procs[p].videoId \in DOMAIN procs[p].read
        /\ DOMAIN srsData = VideoIds \ {procs[p].videoId}
        /\ DOMAIN alarms = VideoIds \ {procs[p].videoId}

-----------------------------------------------------------------------------
(* Properties of the video library (SpecLibrary): one request at a time,   *)
(* the chrome APIs working                                                 *)

\* the step in which addVideoToLibrary of slot p saves and returns
AddSaves(p) ==
    /\ procs[p].action = "addVideo"
    /\ procs[p].pc = "saveLibrary"
    /\ procs'[p].pc = "done"
    /\ procs'[p].response = Success

\* C15: addVideoToLibrary for a videoId that is not in the library appends
\* one record that carries every incoming field as given, with studyCount 0
\* and lastStudied null, and with difficulty 'medium', tags [] and notes ''
\* for those of the three the incoming data does not set.
C15_NewVideoDefaults ==
    [][\A p \in DOMAIN procs :
          (AddSaves(p) /\ findIndex(library, procs[p].videoId) < 0) =>
             LET videoData == procs[p].data
                 added == library'[Len(library')]
             IN /\ Len(library') = Len(library) + 1
                /\ SubSeq(library', 1, Len(library)) = library
                /\ added.studyCount = Num(0)
                /\ added.lastStudied = Null
                /\ \A f \in DOMAIN videoData : added[f] = videoData[f]
                /\ "difficulty" \notin DOMAIN videoData
                      => added.difficulty = Str(<<"medium">>)
                /\ "tags" \notin DOMAIN videoData => added.tags = Arr(<<>>)
                /\ "notes" \notin DOMAIN videoData => added.notes = Str(<<>>)]_vars

\* C16: addVideoToLibrary for a videoId that is in the library merges: every
\* incoming field replaces the stored one, every stored field the incoming
\* data lacks keeps its value, the number of records and the records of the
\* other videos do not change.
C16_MergeKeepsFields ==
    [][\A p \in DOMAIN procs :
          (AddSaves(p) /\ findIndex(library, procs[p].videoId) >= 0) =>
             LET videoData == procs[p].data
                 index == findIndex(library, procs[p].videoId) + 1
                 stored == library[index]
                 merged == library'[index]
             IN /\ Len(library') = Len(library)
                /\ \A i \in DOMAIN library \ {index} : library'[i] = library[i]
                /\ DOMAIN merged = DOMAIN stored \cup DOMAIN videoData
                /\ \A f \in DOMAIN videoData : merged[f] = videoData[f]
                /\ \A f \in DOMAIN stored \ DOMAIN videoData :
                      merged[f] = stored[f]]_vars

\* a studied video was added again under another title, next to a second one
C16_Witness ==
    \E p \in DOMAIN procs :
        /\ procs[p].pc = "done"
        /\ procs[p].action = "addVideo"
        /\ procs[p].response = Success
        /\ procs[p].data.title = Str(<<"B">>)
        /\ findIndex(procs[p].read, procs[p].videoId) >= 0
        /\ Len(library) = 2
        /\ StudyCount(procs[p].videoId) >= 1

\* the step in which the 'updateVideo' of a study session saves
StudySaves(p) ==
    /\ procs[p].caller = "updateVideoStudyCount"
    /\ procs[p].pc = "saveLibrary"
    /\ procs'[p].pc = "done"

\* the step in which updateVideoStudyCount of slot p returns
StudyEnds(p) ==
    /\ procs[p].caller = "updateVideoStudyCount"
    /\ procs[p].pc # "done"
    /\ procs'[p].pc = "done"

\* C17: a study session raises the studyCount of its video by exactly 1 and
\* sets lastStudied to the time read; for a video that is not in the library
\* it ends with a failure its caller can see.
C17_StudySessionCounted ==
    [][\A p \in DOMAIN procs :
          /\ StudySaves(p) =>
                LET index == findIndex(library, procs[p].videoId) + 1
                IN /\ library'[index].studyCount.num =
                         library[index].studyCount.num + 1
                   /\ library'[index].lastStudied = procs[p].data.lastStudied
          /\ (StudyEnds(p) /\ findIndex(library, procs[p].videoId) < 0) =>
                /\ procs'[p].response.type = "object"
                /\ procs'[p].response.success = FALSE]_vars

-----------------------------------------------------------------------------
(* Properties of the service with failing chrome API calls (SpecFail)      *)

\* C14: when 'removeVideo' is answered with success the library has no
\* record of the videoId, the schedule no entry and chrome.alarms no alarm
\* for it, also when a call inside cancelVideoReview failed.
C14_RemoveCleansUp ==
    \A p \in DOMAIN procs :
        (/\ procs[p].pc = "done"
         /\ procs[p].action = "removeVideo"
         /\ procs[p].response = Success)
        => /\ findIndex(library, procs[p].videoId) < 0
           /\ procs[p].videoId \notin DOMAIN srsData
           /\ procs[p].videoId \notin DOMAIN alarms

\* the calls of chrome.storage.local
StorageCalls == {"getLibrary", "saveLibrary", "getSRS", "saveSRS"}

\* C20: once a chrome.storage call of a mutation (addVideo, updateVideo,
\* removeVideo, scheduleReview, updateSRSData) has failed, the mutation
\* writes neither the library nor the schedule, and the request is answered
\* with a failure.
C20_StorageFailureSurfaced ==
    [][\A p \in DOMAIN procs :
          (procs'[p].failed \in StorageCalls /\ procs'[p].caller = "handleMessage")
          => /\ library' = library
             /\ srsData' = srsData
             /\ procs'[p].pc = "done" => procs'[p].response.success = FALSE]_vars

-----------------------------------------------------------------------------
(* Properties of requests in flight together (SpecStudy, SpecRace)         *)

\* C18: the stored studyCount of a video never decreases while the video
\* stays in the library.
C18_StudyCountMonotonic ==
    [][\A videoId \in VideoIds :
          (findIndex(library, videoId) >= 0 /\ findIndex(library', videoId) >= 0)
          => StudyCount(videoId)' >= StudyCount(videoId)]_vars

\* the step in which addVideoToLibrary of slot p saves or fails to
AddEnds(p) ==
    /\ procs[p].action = "addVideo"
    /\ procs[p].pc = "saveLibrary"
    /\ procs'[p].pc = "done"

\* the invocation of slot q added another video than that of slot p
AddedBefore(q, p) ==
    /\ procs[q].pc = "done"
    /\ procs[q].action = "addVideo"
    /\ procs[q].videoId # procs[p].videoId

\* C19: an addVideoToLibrary that saves reports success and leaves its video
\* in the library; the video another call added and reported success for is
\* in the library afterwards exactly if this call had read it, so that it is
\* lost when both calls read before either wrote and kept when the calls do
\* not overlap.
C19_LaterWriteWins ==
    [][\A p \in DOMAIN procs :
          AddEnds(p) =>
             /\ procs'[p].response = Success
             /\ findIndex(library', procs[p].videoId) >= 0
             /\ \A q \in DOMAIN procs \ {p} :
                   AddedBefore(q, p) =>
                      /\ procs'[q].response = Success
                      /\ findIndex(library', procs[q].videoId) >= 0
                            <=> findIndex(procs[p].read, procs[q].videoId) >= 0]_vars

\* both calls read the empty library and reported success; one video is left
C19_Witness ==
    /\ \A p \in Slots :
          /\ procs[p].pc = "done"
          /\ procs[p].action = "addVideo"
          /\ procs[p].response = Success
          /\ procs[p].read = <<>>
    /\ procs["popup"].videoId # procs["content"].videoId
    /\ Len(library) = 1

-----------------------------------------------------------------------------
(* Properties of parseAIResponse (SpecParse)                               *)

\* the text a strategy extracts: the group of the match, the whole match
\* when the group is empty or the pattern has none
Extracted(match) ==
    IF "group" \in DOMAIN match /\ match.group # <<>> THEN match.group ELSE match.whole

\* the matches of the three extraction strategies, in order: the first block
\* fenced with the json tag, the first fenced block, the braces
Strategies ==
    <<MatchFenced(rawResponse.chars, {FenceJson}),
      MatchFenced(rawResponse.chars, {Fence, FenceJson}),
      MatchBraces(rawResponse.chars)>>

\* the strategies that find a text that is valid JSON
Yielding ==
    {i \in DOMAIN Strategies :
        /\ Strategies[i].found
        /\ ~JSONParse(Trim(Extracted(Strategies[i]))).threw}

\* C21: parseAIResponse returns the parse of the first of the three
\* strategies (json-tagged block, any fenced block, braces) whose extracted
\* text is valid JSON, also when an earlier strategy found a text that does
\* not parse; it throws only when no strategy yields valid JSON.
C21_FirstSuccessfulParseWins ==
    parseResult # Undefined =>
        /\ Yielding # {} =>
              parseResult = JSONParse(Trim(Extracted(Strategies[First(Yielding)])))
        /\ parseResult.threw => Yielding = {}

-----------------------------------------------------------------------------
(* Properties of the fallback generator (SpecFallback)                     *)

FallbackReturned == fallbackResult # Undefined /\ ~fallbackResult.threw

\* the questions of the fallback quiz
FallbackQuestions == fallbackResult.value.quiz.questions.items

\* C22: the fallback quiz of a transcript of n segments has 2 questions for
\* 1 <= n <= 5 and 3 for n > 5: the beginning question, the segment-count
\* question and for n > 5 the content-type question, in that order; every
\* question has 4 options and correctAnswer 0, and option 0 of the
\* segment-count question reads 'n segments'.
C22_FallbackQuiz ==
    FallbackReturned =>
        LET n == Len(transcriptData.items)
            questions == FallbackQuestions
        IN /\ (n >= 1 /\ n <= 5) => Len(questions) = 2
           /\ n > 5 => Len(questions) = 3
           /\ n >= 1 =>
                 /\ questions[1].question
                       = Str(<<"What is discussed at the beginning of this video?">>)
                 /\ questions[2].question
                       = Str(<<"How many content segments does this video have?">>)
                 /\ questions[2].options.items[1] = Str(<<ToString(n), " segments">>)
           /\ n > 5 =>
                 questions[3].question = Str(<<"What type of content is this video?">>)
           /\ \A i \in DOMAIN questions :
                 /\ Len(questions[i].options.items) = 4
                 /\ questions[i].correctAnswer = Num(0)

\* six segments: three questions
C22_Witness ==
    /\ FallbackReturned
    /\ Len(transcriptData.items) = 6
    /\ Len(FallbackQuestions) = 3
    /\ FallbackQuestions[2].options.items[1] = Str(<<"6", " segments">>)

\* the whitespace-delimited tokens of the transcript, lowercased
Tokens ==
    LET texts == [i \in DOMAIN transcriptData.items |-> transcriptData.items[i].text]
        all == Concat(texts)
    IN [i \in DOMAIN all |-> ToLowerCase(all[i])]

Occurrences(term) == Cardinality({i \in DOMAIN Tokens : Tokens[i] = term})
FirstOccurrence(term) == First({i \in DOMAIN Tokens : Tokens[i] = term})

\* alphabetic, longer than 4 characters and not in the stoplist
Eligible(term) ==
    /\ IsAlphabetic(term)
    /\ Len(term) > 4
    /\ term \notin commonWords

\* term a comes before term b: more occurrences, or as many and seen first
RanksBefore(a, b) ==
    \/ Occurrences(a) > Occurrences(b)
    \/ Occurrences(a) = Occurrences(b) /\ FirstOccurrence(a) < FirstOccurrence(b)

\* C23: the fallback key terms are at most 8 eligible tokens of the
\* transcript (lowercased, alphabetic, longer than 4, not in the stoplist),
\* in descending order of occurrences with ties in order of first
\* occurrence; no eligible token that ranks before a returned one is left
\* out, so the list is a function of the transcript.
C23_KeyTermsRanked ==
    FallbackReturned =>
        LET terms == [i \in DOMAIN fallbackResult.value.keyTerms.items |->
                         fallbackResult.value.keyTerms.items[i].chars]
            eligible == {t \in Range(Tokens) : Eligible(t)}
        IN /\ Len(terms) = Min(KeyTermLimit, Cardinality(eligible))
           /\ \A i \in DOMAIN terms : terms[i] \in eligible
           /\ \A i, j \in DOMAIN terms : i < j => RanksBefore(terms[i], terms[j])
           /\ \A t \in eligible \ Range(terms) :
                 \A i \in DOMAIN terms : RanksBefore(terms[i], t)

-----------------------------------------------------------------------------
(* Properties of the popup's scheduleReview (SpecPopup)                    *)

\* C24: when the 'scheduleReview' request of the popup was answered with
\* success = false, the popup shows 'Failed to schedule review' and not
\* 'Review scheduled successfully!'.
C24_FailureShown ==
    \A p \in DOMAIN procs :
        (/\ procs[p].caller = "scheduleReview"
         /\ procs[p].pc = "done"
         /\ ~procs[p].response.success)
        => popupNotification = Notification("Failed to schedule review", "error")

-----------------------------------------------------------------------------
(* Properties of the alarms, the schedule and the library together         *)

\* no handler is between two of its steps
Quiescent == \A p \in DOMAIN procs : procs[p].pc \in {"idle", "done"}

\* C25: whenever no background operation is in progress, every armed alarm
\* 'echo_review_<id>' has a schedule entry for id whose nextReview is the
\* alarm's time, also after a storage write failed once the alarm was armed.
C25_AlarmMatchesSchedule ==
    Quiescent =>
        \A videoId \in DOMAIN alarms :
            /\ videoId \in DOMAIN srsData
            /\ Prop(srsData[videoId], "nextReview") = alarms[videoId]

\* C26: whenever no background operation is in progress, every schedule
\* entry and every armed alarm belongs to a video that is in the library.
C26_ScheduledVideoInLibrary ==
    Quiescent =>
        \A videoId \in DOMAIN srsData \cup DOMAIN alarms :
            findIndex(library, videoId) >= 0

\* C29: a scheduleVideoReview that finds no entry for the id, or one with
\* interval 1, stores interval 1: an entry that only scheduleVideoReview
\* writes keeps interval 1 however often the review is rescheduled.
C29_IntervalStaysOne ==
    [][\A p \in DOMAIN procs :
          (/\ ScheduleSaves(p)
           /\ \/ procs[p].videoId \notin DOMAIN srsData
              \/ Prop(srsData[procs[p].videoId], "interval") \in {Undefined, Num(1)})
          => srsData'[procs[p].videoId].interval = Num(1)]_vars

\* the review of v1 was scheduled twice and the interval is still 1
C29_Witness ==
    /\ Quiescent
    /\ scheduled[Str(<<"v1">>)] = 2
    /\ Str(<<"v1">>) \in DOMAIN srsData
    /\ srsData[Str(<<"v1">>)].repetitions = Num(2)
    /\ srsData[Str(<<"v1">>)].interval = Num(1)

-----------------------------------------------------------------------------
(* Properties of removals and additions in flight together (SpecRemove)    *)

\* a removeVideoFromLibrary of videoId has completed with success
Removed(videoId) ==
    \E q \in DOMAIN procs :
        /\ procs[q].pc = "done"
        /\ procs[q].action = "removeVideo"
        /\ procs[q].videoId = videoId
        /\ procs[q].response = Success

\* C27: once removeVideoFromLibrary(id) has completed with success and the
\* library has no record for id, a record for id is stored again only by an
\* addVideoToLibrary for id, not by an updateVideoInLibrary that read the
\* library before the removal.
C27_RemovedStaysRemoved ==
    [][\A videoId \in VideoIds :
          (/\ Removed(videoId)
           /\ findIndex(library, videoId) < 0
           /\ findIndex(library', videoId) >= 0)
          => \E p \in DOMAIN procs : AddEnds(p) /\ procs[p].videoId = videoId]_vars

\* C28: the stored library never holds two records with the same videoId.
C28_NoDuplicateVideoIds ==
    \A i, j \in DOMAIN library :
        library[i].videoId = library[j].videoId => i = j

\* two adds of the same new video both read the empty library and both saved
C28_Witness ==
    /\ \A p \in Slots :
          /\ procs[p].pc = "done"
          /\ procs[p].action = "addVideo"
          /\ procs[p].videoId = Str(<<"v1">>)
          /\ procs[p].response = Success
          /\ procs[p].read = <<>>
    /\ Len(library) = 1

\* slot p holds a handleReviewAlarm invocation that has not returned
HandlingAlarm(p) ==
    /\ procs[p].caller = "handleReviewAlarm"
    /\ procs[p].pc \notin {"idle", "done"}

\* the step is one of the handleReviewAlarm invocation in slot p
AlarmHandlerSteps(p) == HandlingAlarm(p) /\ procs'[p] # procs[p]

\* the handleReviewAlarm invocation in slot p has read the library, and the
\* library it read last holds the video of its alarm
FoundVideo(p) ==
    /\ ~(procs[p].action = "reviewAlarm" /\ procs[p].pc = "getLibrary")
    /\ findIndex(procs[p].read, procs[p].videoId) >= 0

\* C30: a review notification is created only by a handleReviewAlarm
\* invocation that found the video its alarm names in the library it read,
\* and the notification is the 'time to review' one of that video; such an
\* invocation writes the library only when the video is in the library its
\* updateVideoInLibrary read, and then saves that library with lastReviewed
\* set on that video and nothing else changed; an invocation that did not
\* find the video creates no notification and writes nothing; no step of
\* the invocation, and no alarm going off, changes the schedule (srsData)
C30_AlarmHandling ==
    [][/\ notifications' # notifications =>
             \E p \in DOMAIN procs :
                 /\ AlarmHandlerSteps(p)
                 /\ FoundVideo(p)
                 /\ notifications' =
                        Append(notifications,
                               ReviewNotification(find(procs[p].read,
                                                       procs[p].videoId)))
       /\ \A p \in DOMAIN procs :
             AlarmHandlerSteps(p) =>
                 /\ srsData' = srsData
                 /\ library' # library =>
                        /\ FoundVideo(p)
                        /\ \E now \in 1..MaxTime :
                              library' = updateVideoInLibrary(
                                             procs[p].read, procs[p].videoId,
                                             [type |-> "object",
                                              lastReviewed |-> Num(now)])
                 /\ ~FoundVideo(p) =>
                        /\ notifications' = notifications
                        /\ library' = library
       /\ \A p \in DOMAIN procs :
             (~HandlingAlarm(p) /\ HandlingAlarm(p)') =>
                 /\ srsData' = srsData
                 /\ library' = library
                 /\ notifications' = notifications]_vars

\* an alarm of a video in the library was handled: the notification exists
\* and the video carries lastReviewed, its schedule entry still there
C30_Witness ==
    /\ notifications # <<>>
    /\ \E i \in DOMAIN library :
          /\ Prop(library[i], "lastReviewed").type = "number"
          /\ library[i].videoId \in DOMAIN srsData
    /\ \A p \in DOMAIN procs : ~HandlingAlarm(p)

\* an alarm of a video that is not in the library was handled: no
\* notification, and the library was never written
C30_WitnessNotInLibrary ==
    /\ \E p \in DOMAIN procs :
          /\ procs[p].caller = "handleReviewAlarm"
          /\ procs[p].pc = "done"
    /\ notifications = <<>>
    /\ library = <<>>

====
